---- MODULE Spec2Model ----
(***************************************************************************)
(* Model of package graceful (src/graceful/graceful.go): GracefulServer,   *)
(* a net/http server with a bound listener, a signal-watch goroutine and a *)
(* Close that runs http.Server.Shutdown under a deadline.                  *)
(*                                                                         *)
(* Goroutines: "main" performs Bind, Listen and ListenAndServe one after   *)
(* the other (Listen blocks it while the serve loop runs); "closer" is the *)
(* goroutine of a direct caller of Close; every Listen spawns one          *)
(* listenForShutdownSignal goroutine ("w1", "w2", ...).                    *)
(* http.Server (Serve, Shutdown, Close) is modelled by its behaviour: the  *)
(* inShutdown flag, the tracked listener, the in-flight connections,       *)
(* Shutdown's poll loop and its select on the context.  Time is abstract:  *)
(* the deadline of a context elapses in the step TimerFire.                *)
(***************************************************************************)
EXTENDS Integers, Sequences, FiniteSets, TLC

\* ------------------------------------------------------------------ bounds
MaxListens == 1     \* calls of Listen / ListenAndServe that reach Listen
MaxBinds   == 2     \* listeners net.Listen hands out
MaxCloses  == 1     \* direct calls of Close
MaxConns   == 2     \* client connections

\* --------------------------------------------------------------- constants
DefaultShutdownTimeout == 60

Nil              == "nil"
DeadlineExceeded == "context deadline exceeded"
ErrServerClosed  == "http: Server closed"
AlreadyBound     == "The listener has already started, don't call Bind first"
BindError        == "listen tcp: bind failed"
ServeError       == "accept tcp: accept failed"
ClosedConnError  == "close tcp: use of closed network connection"
Pending          == "-"

Closer == "closer"
WatcherId(i) == "w" \o ToString(i)
Watchers == {WatcherId(i) : i \in 1..MaxListens}
Threads == {Closer} \cup Watchers
Conns == 1..MaxConns

EphemeralAddr == "127.0.0.1:0"      \* port 0: the system picks the port
BusyAddr      == "127.0.0.1:80"     \* in use, held by another process
BadAddr       == "256.0.0.1:http"   \* malformed
Addrs == {EphemeralAddr, BusyAddr, BadAddr}

Signals == {"interrupt", "terminated"}

LogSignal == "Triggering shutdown from signal"
LogIntent == "Triggering shutdown, in at most"
LogForce  == "Forcing a shutdown after waiting"
LogError  == "Error while shutting down"

VARIABLES
  listener,         \* svr.listener: 0 is nil, else an index of lsn
  URL,              \* svr.URL
  ShutdownTimeout,  \* svr.ShutdownTimeout
  lsn,              \* the listeners net.Listen created: [addr, open]
  inShutdown,       \* http.Server: Shutdown or Close has begun
  ocl,              \* http.Server: the listener Serve tracks: [l, done, err]
  cs,               \* per connection: none, active (in flight), done,
                    \* abandoned (closed under a running handler), abandonedDone
  mainPc,           \* "idle", or "serving": main is in Serve's accept loop
  mainRet,          \* the error main's last call returned
  fr,               \* per goroutine: its call of Close
  wpc,              \* per watcher: position in listenForShutdownSignal
  sigbuf,           \* per watcher: signals buffered in the channel c (capacity 1)
  shutErr,          \* per watcher: the local shutErr
  log,              \* what was logged: <<goroutine, message>>
  hist,             \* what is recorded of the direct call of Close
  crashed           \* the process died of a panic

vars == <<listener, URL, ShutdownTimeout, lsn, inShutdown, ocl, cs, mainPc,
          mainRet, fr, wpc, sigbuf, shutErr, log, hist, crashed>>

\* A call of Close: where it is, its context, the listeners' error, what the
\* last call returned, and the calls so far.
NoFrame == [pc |-> "none", ctxDone |-> FALSE, lnerr |-> Nil, err |-> Pending,
            n |-> 0]
\* What is recorded of the direct call of Close: whether the serve loop ran
\* and the requests in flight when it was invoked, and whether one of those
\* (late), or any request (out), was in flight when its deadline elapsed.
\* Of the watcher's call: whether it was made on a server already shut down,
\* Listen and the direct call of Close having returned (sigLate).
NoHist == [serving |-> FALSE, atInvoke |-> {}, late |-> FALSE, out |-> FALSE,
           sigLate |-> FALSE]
NoOcl == [l |-> 0, done |-> FALSE, err |-> Nil]

\* NewGracefulServer: listener nil, ShutdownTimeout the default, nothing served.
Init ==
  /\ listener = 0
  /\ URL = ""
  /\ ShutdownTimeout = DefaultShutdownTimeout
  /\ lsn = <<>>
  /\ inShutdown = FALSE
  /\ ocl = NoOcl
  /\ cs = [c \in Conns |-> "none"]
  /\ mainPc = "idle"
  /\ mainRet = Pending
  /\ fr = [t \in Threads |-> NoFrame]
  /\ wpc = [w \in Watchers |-> "unspawned"]
  /\ sigbuf = [w \in Watchers |-> 0]
  /\ shutErr = [w \in Watchers |-> Nil]
  /\ log = {}
  /\ hist = NoHist
  /\ crashed = FALSE

\* ----------------------------------------------------------------- helpers
InFlight == {c \in Conns : cs[c] = "active"}
HandlerRunning == {c \in Conns : cs[c] \in {"active", "abandoned"}}
InClose(t) == fr[t].pc # "none"
MainIdle == mainPc = "idle"
Spawned == {w \in Watchers : wpc[w] # "unspawned"}
Registered(w) == wpc[w] \notin {"unspawned", "notify"}
NextWatcher == WatcherId(Cardinality(Spawned) + 1)

\* net.Listen("tcp", addr): the local addresses it can resolve to (none: it
\* fails).  For port 0 the system picks a port no listener has.
NetListen(a) ==
  IF a \in {BadAddr, BusyAddr} THEN {}
  ELSE {"127.0.0.1:" \o ToString(49152 + Len(lsn))}

\* net.Listener.Close: the listener is closed whatever Close returns; closing
\* an open listener returns nil or the transport's error, closing it again
\* is an error.
CloseErrs(ls, l) == IF ls[l].open THEN {Nil, ClosedConnError} ELSE {ClosedConnError}
Closed(ls, l) == [ls EXCEPT ![l].open = FALSE]

\* http.Server.closeListenersLocked, through the once-only wrapper Serve puts
\* around its listener: e is the error it returns.
CloseListeners(e) ==
  /\ e \in (IF ocl.l = 0 THEN {Nil}
            ELSE IF ocl.done THEN {ocl.err} ELSE CloseErrs(lsn, ocl.l))
  /\ lsn' = IF ocl.l = 0 THEN lsn ELSE Closed(lsn, ocl.l)
  /\ ocl' = IF ocl.l = 0 THEN ocl
            ELSE [l |-> ocl.l, done |-> TRUE, err |-> e]

\* ------------------------------------------------------------------- Bind
\* Mutant of BindOk: the URL is recorded by the first Bind only.
BindOk_UrlSetOnce(r) ==
  /\ lsn' = Append(lsn, [addr |-> r, open |-> TRUE])
  /\ URL' = IF URL = "" THEN "http://" \o r ELSE URL
  /\ listener' = Len(lsn) + 1

\* l, err := net.Listen(...) succeeded with local address r: lines 41-43.
BindOk(r) ==
  /\ lsn' = Append(lsn, [addr |-> r, open |-> TRUE])
  /\ URL' = "http://" \o r
  /\ listener' = Len(lsn) + 1

\* Mutant of Bind: the listener held before is closed when it is replaced.
Bind_ClosesPrevious(a) ==
  /\ ~crashed /\ MainIdle
  /\ \/ /\ Len(lsn) < MaxBinds
        /\ \E r \in NetListen(a) :
             /\ lsn' = Append(IF listener = 0 THEN lsn ELSE Closed(lsn, listener),
                              [addr |-> r, open |-> TRUE])
             /\ URL' = "http://" \o r
             /\ listener' = Len(lsn) + 1
        /\ mainRet' = Nil
     \/ /\ NetListen(a) = {}
        /\ mainRet' = BindError
        /\ UNCHANGED <<listener, URL, lsn>>
  /\ UNCHANGED <<ShutdownTimeout, inShutdown, ocl, cs, mainPc, fr, wpc,
                 sigbuf, shutErr, log, hist, crashed>>

\* Mutant of Bind: the URL is recorded before the error of net.Listen is
\* looked at.
Bind_UrlBeforeErrCheck(a) ==
  /\ ~crashed /\ MainIdle
  /\ \/ /\ Len(lsn) < MaxBinds
        /\ \E r \in NetListen(a) : BindOk(r)
        /\ mainRet' = Nil
     \/ /\ NetListen(a) = {}
        /\ mainRet' = BindError
        /\ URL' = "http://" \o a
        /\ UNCHANGED <<listener, lsn>>
  /\ UNCHANGED <<ShutdownTimeout, inShutdown, ocl, cs, mainPc, fr, wpc,
                 sigbuf, shutErr, log, hist, crashed>>

Bind(a) ==
  /\ ~crashed /\ MainIdle
  /\ \/ /\ Len(lsn) < MaxBinds
        /\ \E r \in NetListen(a) : BindOk(r)
        /\ mainRet' = Nil
     \/ /\ NetListen(a) = {}
        /\ mainRet' = BindError
        /\ UNCHANGED <<listener, URL, lsn>>
  /\ UNCHANGED <<ShutdownTimeout, inShutdown, ocl, cs, mainPc, fr, wpc,
                 sigbuf, shutErr, log, hist, crashed>>

\* ----------------------------------------------------------------- Listen
\* go svr.listenForShutdownSignal(); return svr.server.Serve(L), with ls the
\* listeners at that moment.  Serve(nil) panics; Serve on a server that is
\* shutting down closes L and returns ErrServerClosed; else it tracks L and
\* enters the accept loop.
\* Mutant of ListenFrom: Serve does not look at inShutdown.
ListenFrom_ServesAfterShutdown(L, ls) ==
  /\ wpc' = [wpc EXCEPT ![NextWatcher] = "notify"]
  /\ IF L = 0
       THEN /\ crashed' = TRUE
            /\ lsn' = ls
            /\ UNCHANGED <<ocl, mainPc, mainRet>>
       ELSE /\ ocl' = [l |-> L, done |-> FALSE, err |-> Nil]
            /\ mainPc' = "serving"
            /\ lsn' = ls
            /\ UNCHANGED <<mainRet, crashed>>

ListenFrom(L, ls) ==
  /\ wpc' = [wpc EXCEPT ![NextWatcher] = "notify"]
  /\ IF L = 0
       THEN /\ crashed' = TRUE
            /\ lsn' = ls
            /\ UNCHANGED <<ocl, mainPc, mainRet>>
     ELSE IF inShutdown
       THEN /\ lsn' = Closed(ls, L)
            /\ mainRet' = ErrServerClosed
            /\ UNCHANGED <<ocl, mainPc, crashed>>
     ELSE   /\ ocl' = [l |-> L, done |-> FALSE, err |-> Nil]
            /\ mainPc' = "serving"
            /\ lsn' = ls
            /\ UNCHANGED <<mainRet, crashed>>

Listen ==
  /\ ~crashed /\ MainIdle
  /\ Cardinality(Spawned) < MaxListens
  /\ ListenFrom(listener, lsn)
  /\ UNCHANGED <<listener, URL, ShutdownTimeout, inShutdown, cs, fr, sigbuf,
                 shutErr, log,
                 hist>>

\* Mutant of ListenAndServe: no check of the listener it already holds.
ListenAndServe_NoGuard(a) ==
  /\ ~crashed /\ MainIdle
  /\ \/ /\ Len(lsn) < MaxBinds
        /\ Cardinality(Spawned) < MaxListens
        /\ \E r \in NetListen(a) :
             /\ URL' = "http://" \o r
             /\ listener' = Len(lsn) + 1
             /\ ListenFrom(Len(lsn) + 1,
                           Append(lsn, [addr |-> r, open |-> TRUE]))
     \/ /\ NetListen(a) = {}
        /\ mainRet' = BindError
        /\ UNCHANGED <<listener, URL, lsn, ocl, mainPc, wpc, crashed>>
  /\ UNCHANGED <<ShutdownTimeout, inShutdown, cs, fr, sigbuf, shutErr, log,
                 hist>>

ListenAndServe(a) ==
  /\ ~crashed /\ MainIdle
  /\ IF listener # 0
       THEN /\ mainRet' = AlreadyBound
            /\ UNCHANGED <<listener, URL, lsn, ocl, mainPc, wpc, crashed>>
       ELSE \/ /\ Len(lsn) < MaxBinds
               /\ Cardinality(Spawned) < MaxListens
               /\ \E r \in NetListen(a) :
                    /\ URL' = "http://" \o r
                    /\ listener' = Len(lsn) + 1
                    /\ ListenFrom(Len(lsn) + 1,
                                  Append(lsn, [addr |-> r, open |-> TRUE]))
            \/ /\ NetListen(a) = {}
               /\ mainRet' = BindError
               /\ UNCHANGED <<listener, URL, lsn, ocl, mainPc, wpc, crashed>>
  /\ UNCHANGED <<ShutdownTimeout, inShutdown, cs, fr, sigbuf, shutErr, log,
                 hist>>

\* ------------------------------------------------------- the serve loop
\* Accept returns a connection; its request is dispatched to the handler,
\* which returns later or never.
\* Mutant of Accept: a connection is accepted on a closed listener too.
Accept_OnClosedListener(c) ==
  /\ ~crashed /\ mainPc = "serving"
  /\ ocl.l # 0
  /\ cs[c] = "none"
  /\ cs' = [cs EXCEPT ![c] = "active"]
  /\ UNCHANGED <<listener, URL, ShutdownTimeout, lsn, inShutdown, ocl, mainPc,
                 mainRet, fr, wpc, sigbuf, shutErr, log, hist, crashed>>

Accept(c) ==
  /\ ~crashed /\ mainPc = "serving"
  /\ ocl.l # 0 /\ lsn[ocl.l].open
  /\ cs[c] = "none"
  /\ cs' = [cs EXCEPT ![c] = "active"]
  /\ UNCHANGED <<listener, URL, ShutdownTimeout, lsn, inShutdown, ocl, mainPc,
                 mainRet, fr, wpc, sigbuf, shutErr, log, hist, crashed>>

\* Accept fails for good while the listener is open: Serve returns the error
\* and its deferred calls close and untrack the listener.
AcceptFail ==
  /\ ~crashed /\ mainPc = "serving"
  /\ ocl.l # 0 /\ lsn[ocl.l].open
  /\ lsn' = Closed(lsn, ocl.l)
  /\ ocl' = NoOcl
  /\ mainRet' = ServeError
  /\ mainPc' = "idle"
  /\ UNCHANGED <<listener, URL, ShutdownTimeout, inShutdown, cs, fr, wpc,
                 sigbuf, shutErr, log, hist, crashed>>

\* Mutant of ServeExit: Serve returns only once no request is in flight.
ServeExit_WaitsForDrain ==
  /\ ~crashed /\ mainPc = "serving"
  /\ ocl.l # 0 /\ ~lsn[ocl.l].open
  /\ InFlight = {}
  /\ ocl' = NoOcl
  /\ mainRet' = IF inShutdown THEN ErrServerClosed ELSE ServeError
  /\ mainPc' = "idle"
  /\ UNCHANGED <<listener, URL, ShutdownTimeout, lsn, inShutdown, cs, fr, wpc,
                 sigbuf, shutErr, log, hist, crashed>>

\* Mutant of ServeExit: the accept error is returned as it is, shutting
\* down or not.
ServeExit_NoSentinel ==
  /\ ~crashed /\ mainPc = "serving"
  /\ ocl.l # 0 /\ ~lsn[ocl.l].open
  /\ ocl' = NoOcl
  /\ mainRet' = ServeError
  /\ mainPc' = "idle"
  /\ UNCHANGED <<listener, URL, ShutdownTimeout, lsn, inShutdown, cs, fr, wpc,
                 sigbuf, shutErr, log, hist, crashed>>

\* Accept on the closed listener fails: ErrServerClosed when the server is
\* shutting down, the accept error otherwise.
ServeExit ==
  /\ ~crashed /\ mainPc = "serving"
  /\ ocl.l # 0 /\ ~lsn[ocl.l].open
  /\ ocl' = NoOcl
  /\ mainRet' = IF inShutdown THEN ErrServerClosed ELSE ServeError
  /\ mainPc' = "idle"
  /\ UNCHANGED <<listener, URL, ShutdownTimeout, lsn, inShutdown, cs, fr, wpc,
                 sigbuf, shutErr, log, hist, crashed>>

\* The handler of a request returns (also after its connection was abandoned).
HandlerDone(c) ==
  /\ ~crashed
  /\ cs[c] \in {"active", "abandoned"}
  /\ cs' = [cs EXCEPT ![c] = IF cs[c] = "active" THEN "done" ELSE "abandonedDone"]
  /\ UNCHANGED <<listener, URL, ShutdownTimeout, lsn, inShutdown, ocl, mainPc,
                 mainRet, fr, wpc, sigbuf, shutErr, log, hist, crashed>>

\* ------------------------------------------------------------------ Close
\* Close, up to the call of Shutdown: the context with its deadline, the log.
BeginClose(t) ==
  /\ fr' = [fr EXCEPT ![t] =
              [pc |-> "shutdown", ctxDone |-> (ShutdownTimeout <= 0),
               lnerr |-> Nil, err |-> Pending, n |-> fr[t].n + 1]]
  /\ hist' = IF t = Closer
               THEN [serving |-> (mainPc = "serving"),
                     atInvoke |-> InFlight,
                     late |-> (ShutdownTimeout <= 0 /\ InFlight # {}),
                     out |-> (ShutdownTimeout <= 0 /\ InFlight # {}),
                     sigLate |-> hist.sigLate]
               ELSE [hist EXCEPT !.sigLate =
                       (inShutdown /\ mainPc = "idle" /\ ~InClose(Closer)
                        /\ fr[Closer].err # Pending)]
  /\ log' = log \cup {<<t, LogIntent>>} \cup
              (IF t \in Watchers THEN {<<t, LogSignal>>} ELSE {})

\* A direct call of Close.
Close ==
  /\ ~crashed /\ ~InClose(Closer)
  /\ fr[Closer].n < MaxCloses
  /\ BeginClose(Closer)
  /\ UNCHANGED <<listener, URL, ShutdownTimeout, lsn, inShutdown, ocl, cs,
                 mainPc, mainRet, wpc, sigbuf, shutErr, crashed>>

\* The deadline of the context of t's Close elapses.
TimerFire(t) ==
  /\ ~crashed /\ InClose(t) /\ ~fr[t].ctxDone
  /\ fr' = [fr EXCEPT ![t].ctxDone = TRUE]
  /\ hist' = IF t = Closer
               THEN [hist EXCEPT !.late = (hist.atInvoke \cap InFlight # {}),
                                 !.out = (InFlight # {})]
               ELSE hist
  /\ UNCHANGED <<listener, URL, ShutdownTimeout, lsn, inShutdown, ocl, cs,
                 mainPc, mainRet, wpc, sigbuf, shutErr, log, crashed>>

\* Shutdown: set inShutdown and close the tracked listeners.
\* Mutant of ShutdownBegin: the listeners are left open.
ShutdownBegin_KeepsListeners(t) ==
  /\ ~crashed /\ fr[t].pc = "shutdown"
  /\ inShutdown' = TRUE
  /\ fr' = [fr EXCEPT ![t].pc = "poll"]
  /\ UNCHANGED <<listener, URL, ShutdownTimeout, lsn, ocl, cs, mainPc, mainRet,
                 wpc, sigbuf, shutErr, log, hist, crashed>>

ShutdownBegin(t) ==
  /\ ~crashed /\ fr[t].pc = "shutdown"
  /\ inShutdown' = TRUE
  /\ \E e \in {Nil, ClosedConnError} :
       /\ CloseListeners(e)
       /\ fr' = [fr EXCEPT ![t].pc = "poll", ![t].lnerr = e]
  /\ UNCHANGED <<listener, URL, ShutdownTimeout, cs, mainPc, mainRet, wpc,
                 sigbuf, shutErr, log, hist, crashed>>

\* Close returns e to its caller: the direct caller, or line 57 of a watcher.
CloseReturns(t, e) ==
  /\ fr' = [fr EXCEPT ![t].pc = "none", ![t].err = e]
  /\ IF t \in Watchers
       THEN /\ shutErr' = [shutErr EXCEPT ![t] = e]
            /\ wpc' = [wpc EXCEPT ![t] = "check"]
       ELSE UNCHANGED <<wpc, shutErr>>

\* Mutant of ShutdownPoll: it returns without waiting for the requests.
ShutdownPoll_DoesNotWait(t) ==
  /\ ~crashed /\ fr[t].pc = "poll"
  /\ ocl.l = 0
  /\ CloseReturns(t, fr[t].lnerr)
  /\ UNCHANGED <<listener, URL, ShutdownTimeout, lsn, inShutdown, ocl, cs,
                 mainPc, mainRet, sigbuf, log, crashed, hist>>

\* Shutdown, once the serve loops have returned: closeIdleConns; return the
\* listeners' error when nothing is in flight.
ShutdownPoll(t) ==
  /\ ~crashed /\ fr[t].pc = "poll"
  /\ ocl.l = 0
  /\ IF InFlight = {}
       THEN CloseReturns(t, fr[t].lnerr)
       ELSE /\ fr' = [fr EXCEPT ![t].pc = "select"]
            /\ UNCHANGED <<wpc, shutErr>>
  /\ UNCHANGED <<listener, URL, ShutdownTimeout, lsn, inShutdown, ocl, cs,
                 mainPc, mainRet, sigbuf, log, crashed,
                 hist>>

\* Mutant of ShutdownSelect: the context is not among the cases.
ShutdownSelect_IgnoresDeadline(t) ==
  /\ ~crashed /\ fr[t].pc = "select"
  /\ fr' = [fr EXCEPT ![t].pc = "poll"]
  /\ UNCHANGED <<listener, URL, ShutdownTimeout, lsn, inShutdown, ocl, cs,
                 mainPc, mainRet, sigbuf, log, crashed, hist, wpc, shutErr>>

\* Shutdown: select on ctx.Done() and the poll timer.
ShutdownSelect(t) ==
  /\ ~crashed /\ fr[t].pc = "select"
  /\ IF fr[t].ctxDone
       THEN CloseReturns(t, DeadlineExceeded)
       ELSE /\ fr' = [fr EXCEPT ![t].pc = "poll"]
            /\ UNCHANGED <<wpc, shutErr>>
  /\ UNCHANGED <<listener, URL, ShutdownTimeout, lsn, inShutdown, ocl, cs,
                 mainPc, mainRet, sigbuf, log, crashed,
                 hist>>

\* ------------------------------------------------------ the signal watcher
\* c := make(chan os.Signal, 1); signal.Notify(c, ...)
WatcherNotify(w) ==
  /\ ~crashed /\ wpc[w] = "notify"
  /\ wpc' = [wpc EXCEPT ![w] = "recv"]
  /\ UNCHANGED <<listener, URL, ShutdownTimeout, lsn, inShutdown, ocl, cs,
                 mainPc, mainRet, fr, sigbuf, shutErr, log, hist, crashed>>

\* The environment raises a signal: it goes to every registered channel that
\* has room.  With no channel registered the process is killed.
Signal(s) ==
  /\ ~crashed
  /\ \E w \in Watchers : Registered(w)
  /\ s \in Signals
  /\ sigbuf' = [w \in Watchers |-> IF Registered(w) THEN 1 ELSE sigbuf[w]]
  /\ UNCHANGED <<listener, URL, ShutdownTimeout, lsn, inShutdown, ocl, cs,
                 mainPc, mainRet, fr, wpc, shutErr, log, hist, crashed>>

\* Mutant of WatcherRecv: on a server that is shut down already the watcher
\* drops the signal and ends.
WatcherRecv_SkipsWhenShutDown(w) ==
  /\ ~crashed /\ wpc[w] = "recv" /\ sigbuf[w] > 0
  /\ sigbuf' = [sigbuf EXCEPT ![w] = 0]
  /\ IF inShutdown
       THEN /\ wpc' = [wpc EXCEPT ![w] = "done"]
            /\ UNCHANGED <<fr, hist, log>>
       ELSE /\ wpc' = [wpc EXCEPT ![w] = "closing"]
            /\ BeginClose(w)
  /\ UNCHANGED <<listener, URL, ShutdownTimeout, lsn, inShutdown, ocl, cs,
                 mainPc, mainRet, shutErr, crashed>>

\* sig := <-c; log; shutErr := svr.Close() is called.
WatcherRecv(w) ==
  /\ ~crashed /\ wpc[w] = "recv" /\ sigbuf[w] > 0
  /\ sigbuf' = [sigbuf EXCEPT ![w] = 0]
  /\ wpc' = [wpc EXCEPT ![w] = "closing"]
  /\ BeginClose(w)
  /\ UNCHANGED <<listener, URL, ShutdownTimeout, lsn, inShutdown, ocl, cs,
                 mainPc, mainRet, shutErr, crashed>>

\* Mutant of WatcherCheck: any error of Close escalates to the hard close.
WatcherCheck_ForcesOnAnyError(w) ==
  /\ ~crashed /\ wpc[w] = "check"
  /\ IF shutErr[w] # Nil
       THEN /\ log' = log \cup {<<w, LogForce>>}
            /\ inShutdown' = TRUE
            /\ \E e \in {Nil, ClosedConnError} :
                 /\ CloseListeners(e)
                 /\ fr' = [fr EXCEPT ![w].lnerr = e]
            /\ wpc' = [wpc EXCEPT ![w] = "forcing"]
       ELSE /\ wpc' = [wpc EXCEPT ![w] = "warn"]
            /\ UNCHANGED <<log, inShutdown, lsn, ocl, fr>>
  /\ UNCHANGED <<listener, URL, ShutdownTimeout, cs, mainPc, mainRet, sigbuf,
                 shutErr, crashed,
                 hist>>

\* if shutErr == context.DeadlineExceeded { warn; shutErr = svr.server.Close() }
\* server.Close begins like Shutdown: inShutdown, close the tracked listeners.
WatcherCheck(w) ==
  /\ ~crashed /\ wpc[w] = "check"
  /\ IF shutErr[w] = DeadlineExceeded
       THEN /\ log' = log \cup {<<w, LogForce>>}
            /\ inShutdown' = TRUE
            /\ \E e \in {Nil, ClosedConnError} :
                 /\ CloseListeners(e)
                 /\ fr' = [fr EXCEPT ![w].lnerr = e]
            /\ wpc' = [wpc EXCEPT ![w] = "forcing"]
       ELSE /\ wpc' = [wpc EXCEPT ![w] = "warn"]
            /\ UNCHANGED <<log, inShutdown, lsn, ocl, fr>>
  /\ UNCHANGED <<listener, URL, ShutdownTimeout, cs, mainPc, mainRet, sigbuf,
                 shutErr, crashed,
                 hist>>

\* Mutant of WatcherForce: the hard close ends the running handlers.
WatcherForce_CancelsHandlers(w) ==
  /\ ~crashed /\ wpc[w] = "forcing"
  /\ ocl.l = 0
  /\ cs' = [c \in Conns |-> IF cs[c] = "active" THEN "abandonedDone" ELSE cs[c]]
  /\ shutErr' = [shutErr EXCEPT ![w] = fr[w].lnerr]
  /\ wpc' = [wpc EXCEPT ![w] = "warn"]
  /\ UNCHANGED <<listener, URL, ShutdownTimeout, lsn, inShutdown, ocl, mainPc,
                 mainRet, fr, sigbuf, log, crashed, hist>>

\* Mutant of WatcherForce: the hard close also drops the listener handle.
WatcherForce_DropsListener(w) ==
  /\ ~crashed /\ wpc[w] = "forcing"
  /\ ocl.l = 0
  /\ cs' = [c \in Conns |-> IF cs[c] = "active" THEN "abandoned" ELSE cs[c]]
  /\ shutErr' = [shutErr EXCEPT ![w] = fr[w].lnerr]
  /\ wpc' = [wpc EXCEPT ![w] = "warn"]
  /\ listener' = 0
  /\ UNCHANGED <<URL, ShutdownTimeout, lsn, inShutdown, ocl, mainPc,
                 mainRet, fr, sigbuf, log, crashed, hist>>

\* server.Close: once the serve loops have returned, close every connection
\* without waiting for its handler; its error becomes shutErr.
WatcherForce(w) ==
  /\ ~crashed /\ wpc[w] = "forcing"
  /\ ocl.l = 0
  /\ cs' = [c \in Conns |-> IF cs[c] = "active" THEN "abandoned" ELSE cs[c]]
  /\ shutErr' = [shutErr EXCEPT ![w] = fr[w].lnerr]
  /\ wpc' = [wpc EXCEPT ![w] = "warn"]
  /\ UNCHANGED <<listener, URL, ShutdownTimeout, lsn, inShutdown, ocl, mainPc,
                 mainRet, fr, sigbuf, log, crashed,
                 hist>>

\* Mutant of WatcherWarn: the watcher waits for the next signal.
WatcherWarn_Rearms(w) ==
  /\ ~crashed /\ wpc[w] = "warn"
  /\ log' = IF shutErr[w] # Nil THEN log \cup {<<w, LogError>>} ELSE log
  /\ wpc' = [wpc EXCEPT ![w] = "recv"]
  /\ UNCHANGED <<listener, URL, ShutdownTimeout, lsn, inShutdown, ocl, cs,
                 mainPc, mainRet, fr, sigbuf, shutErr, crashed, hist>>

\* Mutant of WatcherWarn: the error is fatal instead of a warning.
WatcherWarn_FatalOnError(w) ==
  /\ ~crashed /\ wpc[w] = "warn"
  /\ log' = IF shutErr[w] # Nil THEN log \cup {<<w, LogError>>} ELSE log
  /\ crashed' = (shutErr[w] # Nil)
  /\ wpc' = [wpc EXCEPT ![w] = "done"]
  /\ UNCHANGED <<listener, URL, ShutdownTimeout, lsn, inShutdown, ocl, cs,
                 mainPc, mainRet, fr, sigbuf, shutErr, hist>>

\* if shutErr != nil { warn }; the goroutine ends.
WatcherWarn(w) ==
  /\ ~crashed /\ wpc[w] = "warn"
  /\ log' = IF shutErr[w] # Nil THEN log \cup {<<w, LogError>>} ELSE log
  /\ wpc' = [wpc EXCEPT ![w] = "done"]
  /\ UNCHANGED <<listener, URL, ShutdownTimeout, lsn, inShutdown, ocl, cs,
                 mainPc, mainRet, fr, sigbuf, shutErr, crashed,
                 hist>>

\* ------------------------------------------------------------------- Next
Next ==
  \/ \E a \in Addrs : Bind(a)
  \/ Listen
  \/ \E a \in Addrs : ListenAndServe(a)
  \/ \E c \in Conns : Accept(c)
  \/ AcceptFail
  \/ ServeExit
  \/ \E c \in Conns : HandlerDone(c)
  \/ Close
  \/ \E t \in Threads : TimerFire(t)
  \/ \E t \in Threads : ShutdownBegin(t)
  \/ \E t \in Threads : ShutdownPoll(t)
  \/ \E t \in Threads : ShutdownSelect(t)
  \/ \E w \in Watchers : WatcherNotify(w)
  \/ \E s \in Signals : Signal(s)
  \/ \E w \in Watchers : WatcherRecv(w)
  \/ \E w \in Watchers : WatcherCheck(w)
  \/ \E w \in Watchers : WatcherForce(w)
  \/ \E w \in Watchers : WatcherWarn(w)

Spec == Init /\ [][Next]_vars

\* The steps of the goroutine t: its call of Close and, for a watcher, the
\* rest of listenForShutdownSignal.
GoStep(t) ==
  \/ ShutdownBegin(t) \/ ShutdownPoll(t) \/ ShutdownSelect(t)
  \/ /\ t \in Watchers
     /\ \/ WatcherNotify(t) \/ WatcherRecv(t) \/ WatcherCheck(t)
        \/ WatcherForce(t) \/ WatcherWarn(t)

\* The scheduler runs every goroutine that can run and timers fire; nothing
\* makes a handler return, a client connect, a signal arrive or a caller call.
Fairness ==
  /\ WF_vars(ServeExit)
  /\ \A t \in Threads : WF_vars(TimerFire(t)) /\ WF_vars(GoStep(t))

FairSpec == Spec /\ Fairness

\* ================================================================ claims
\* A step in which t's call of Close returns.
CloseReturnsNow(t) == fr[t].pc # "none" /\ fr'[t].pc = "none"
\* Some call of Close has been invoked; some call of Close has returned.
CloseInvoked == \E t \in Threads : fr[t].n > 0
CloseReturned == \E t \in Threads : fr[t].err # Pending
\* The serve loop accepts no connection in this step.
NoNewAccept == \A c \in Conns : cs[c] = "none" => cs'[c] = "none"
\* Watcher w has begun the hard close (it logs the warning and calls
\* server.Close in one step).
Forced(w) == <<w, LogForce>> \in log

\* ---- C1
\* C1 as stated, for a direct call of Close on a serving coordinator: it
\* returned nil only if every
\* request in flight at its invocation completed before the deadline, and
\* DeadlineExceeded only if a request was in flight when the deadline elapsed.
C1_AsStated ==
  hist.serving =>
  /\ fr[Closer].err = Nil =>
       /\ \A c \in hist.atInvoke : cs[c] # "active"
       /\ ~hist.late
  /\ fr[Closer].err = DeadlineExceeded => fr[Closer].ctxDone /\ hist.out

\* C1 amended: a call of Close returns nil only when no request is in flight
\* at that moment (every request in flight at the invocation has completed or
\* was abandoned, be it after the deadline), and it returns DeadlineExceeded
\* only when its deadline has elapsed and its last poll found a request in flight
\* (which may have completed since, even before the deadline); the direct
\* caller gets that value as the return value.
C1_CloseResult ==
  /\ [](fr[Closer].err = Nil => \A c \in hist.atInvoke : cs[c] # "active")
  /\ [][\A t \in Threads : CloseReturnsNow(t) =>
          /\ fr'[t].err \in {Nil, DeadlineExceeded, ClosedConnError}
          /\ fr'[t].err # DeadlineExceeded => InFlight = {} /\ fr'[t].err = fr[t].lnerr
          /\ fr'[t].err = DeadlineExceeded => fr[t].ctxDone /\ fr[t].pc = "select"]_vars

\* A direct call of Close has returned DeadlineExceeded with a request of its
\* invocation still in flight, and nobody has forced the server closed.
C1_Witness ==
  /\ hist.serving
  /\ fr[Closer].err = DeadlineExceeded
  /\ hist.atInvoke \cap InFlight # {}
  /\ \A w \in Watchers : ~Forced(w)

\* ---- C2
\* C2 as stated: from the invocation of Close on, no connection is accepted.
C2_AsStated == [][CloseInvoked => NoNewAccept]_vars

\* C2 amended: once Close has closed the listener (the first step of the
\* Shutdown it calls, after Close has made its context and written its log
\* line) no connection is accepted any more; until then one can be.
C2_NoAcceptAfterShutdown == [][inShutdown => NoNewAccept]_vars

\* Shutdown has begun with two requests in flight at the invocation, one of
\* which has completed while the other is still in flight.
C2_Witness ==
  /\ inShutdown /\ InClose(Closer)
  /\ \E c, d \in hist.atInvoke : cs[c] = "done" /\ cs[d] = "active"

\* ---- C3
\* C3: only a watcher closes the server hard, it does so exactly when its
\* own call of Close returned DeadlineExceeded, after that call returned;
\* any other error of Close is logged and nothing more.
C3_HardCloseIffDeadline ==
  /\ \A w \in Watchers :
       /\ Forced(w) => fr[w].pc = "none" /\ fr[w].err = DeadlineExceeded
       /\ wpc[w] \in {"warn", "done"} => (Forced(w) <=> fr[w].err = DeadlineExceeded)
       /\ wpc[w] \in {"forcing"} => Forced(w)
       /\ (wpc[w] = "done" /\ fr[w].err \notin {Nil, DeadlineExceeded})
            => <<w, LogError>> \in log
  /\ (\E c \in Conns : cs[c] \in {"abandoned", "abandonedDone"})
       => \E w \in Watchers : Forced(w)

\* A watcher has ended after the hard close, which abandoned a request.
C3_Witness ==
  \E w \in Watchers :
    /\ wpc[w] = "done" /\ Forced(w)
    /\ \E c \in Conns : cs[c] = "abandoned"

\* ---- C4
\* C4: under the scheduler's fairness every call of Close returns (unless the
\* process dies of a panic first), and a call that returns while a request
\* is still in flight returns DeadlineExceeded, its deadline having elapsed.
C4_CloseAlwaysReturns ==
  /\ \A t \in Threads : []<>(~InClose(t) \/ crashed)
  /\ [][\A t \in Threads : (CloseReturnsNow(t) /\ InFlight # {}) =>
          fr'[t].err = DeadlineExceeded /\ fr[t].ctxDone]_vars

\* A call of Close on a serving coordinator has returned DeadlineExceeded
\* while the handler of a request of its invocation has not returned.
C4_Witness ==
  /\ hist.serving
  /\ fr[Closer].err = DeadlineExceeded /\ ~InClose(Closer)
  /\ hist.atInvoke \cap InFlight # {}
  /\ mainPc = "idle"

\* ---- C5
\* The hard close has been carried out; the drain completed without one.
ClosedForced == \E w \in Watchers : Forced(w) /\ wpc[w] \in {"warn", "done"}
ClosedClean == inShutdown /\ InFlight = {} /\ \A w \in Watchers : ~Forced(w)

\* C5: a signal delivered to the watcher of a serving coordinator leads,
\* under fairness (no handler need ever return), to the watcher ending with
\* the coordinator closed-clean or closed-forced, never both.
C5_SignalLeadsToClosed ==
  \A w \in Watchers :
    (mainPc = "serving" /\ wpc[w] = "recv" /\ sigbuf[w] > 0)
      ~> (wpc[w] = "done" /\ (ClosedClean \/ ClosedForced)
                          /\ ~(ClosedClean /\ ClosedForced))

\* The watcher has ended after the hard close while a handler still runs.
C5_Witness ==
  \E w \in Watchers :
    /\ wpc[w] = "done" /\ ClosedForced /\ ~ClosedClean
    /\ HandlerRunning # {}

\* ---- C6
\* C6 as stated: once Close has returned, the listener the coordinator holds
\* is closed.
C6_AsStated == (CloseReturned /\ listener # 0) => ~lsn[listener].open

\* C6 amended: once Close has returned, the server accepts no connection
\* any more: the listener of the serve loop is closed, a closed listener
\* stays closed, and a call of Listen closes the listener it is given
\* without serving it.  A listener that was not being served (Close before
\* Listen, Bind after Close) stays open until then.
C6_NoServiceAfterClose ==
  /\ [](CloseReturned => inShutdown /\ (ocl.l # 0 => ~lsn[ocl.l].open))
  /\ [][CloseReturned =>
          /\ NoNewAccept
          /\ \A l \in 1..Len(lsn) : ~lsn[l].open => ~lsn'[l].open
          /\ (Spawned' # Spawned /\ ~crashed') =>
               (~lsn'[listener'].open /\ mainPc' = "idle"
                /\ mainRet' = ErrServerClosed)]_vars

\* Close returned before Listen was called: Listen has closed the listener
\* and returned the sentinel without serving.
C6_Witness ==
  /\ CloseReturned /\ cs = [c \in Conns |-> "none"]
  /\ listener # 0 /\ ~lsn[listener].open
  /\ Spawned # {} /\ mainRet = ErrServerClosed /\ hist.serving = FALSE
  /\ \A w \in Watchers : fr[w].n = 0

\* ---- C7
\* C7 as stated: at most one call of Close is ever made on the coordinator.
C7_AsStated ==
  /\ Cardinality({t \in Threads : fr[t].n > 0}) <= 1
  /\ \A t \in Threads : fr[t].n <= 1

\* C7 amended: a watcher calls Close at most once; the calls of the direct
\* callers come on top, the coordinator refuses none.
C7_WatcherClosesOnce ==
  \A w \in Watchers :
    /\ fr[w].n <= 1
    /\ wpc[w] \in {"unspawned", "notify", "recv"} <=> fr[w].n = 0

\* The watcher has ended after its one call of Close, a direct call of Close
\* was made as well, and a further signal waits in the channel unread.
C7_Witness ==
  \E w \in Watchers :
    /\ wpc[w] = "done" /\ fr[w].n = 1
    /\ fr[Closer].n > 0 /\ sigbuf[w] > 0

\* ---- C8
Phase ==
  IF \E w \in Watchers : Forced(w) THEN "closed-forced"
  ELSE IF inShutdown THEN (IF InFlight # {} THEN "draining" ELSE "closed-clean")
  ELSE IF mainPc = "serving" THEN "serving"
  ELSE IF listener # 0 THEN "bound" ELSE "unbound"
Rank(p) == CASE p = "unbound" -> 0 [] p = "bound" -> 1 [] p = "serving" -> 2
             [] p = "draining" -> 3 [] p = "closed-clean" -> 4
             [] p = "closed-forced" -> 5

C9_AlreadyBound ==
  [][\A a \in Addrs : (listener # 0 /\ ListenAndServe(a)) =>
       /\ mainRet' = AlreadyBound
       /\ UNCHANGED <<listener, URL, ShutdownTimeout, lsn, inShutdown, ocl,
                      cs, mainPc, fr, wpc, sigbuf, shutErr, log, hist,
                      crashed>>]_vars

\* ListenAndServe was refused on a bound coordinator whose listener is open
\* and which has no watcher.
C9_Witness ==
  /\ mainRet = AlreadyBound /\ listener # 0 /\ lsn[listener].open
  /\ Spawned = {} /\ mainPc = "idle"

\* ---- C10
\* C10: a Bind that fails, alone or inside ListenAndServe, returns the bind
\* error and changes nothing else.
C10_BindFailure ==
  [][\A a \in Addrs :
       (NetListen(a) = {} /\ (Bind(a) \/ (listener = 0 /\ ListenAndServe(a)))) =>
         /\ mainRet' = BindError
         /\ UNCHANGED <<listener, URL, ShutdownTimeout, lsn, inShutdown, ocl,
                        cs, mainPc, fr, wpc, sigbuf, shutErr, log, hist,
                        crashed>>]_vars

\* A Bind has failed on an unbound coordinator, which is still unbound.
C10_Witness ==
  /\ mainRet = BindError /\ listener = 0 /\ URL = "" /\ lsn = <<>>
  /\ Spawned = {} /\ mainPc = "idle"

\* ---- C11
\* C11 as stated: Listen on a coordinator that holds no listener returns a
\* precondition error to its caller, nothing dies and the serve loop is not
\* entered.
C11_AsStated ==
  [][(listener = 0 /\ Listen) =>
       /\ ~crashed'
       /\ mainPc' = "idle"
       /\ mainRet' \notin {Pending, Nil}]_vars

\* ---- C12
\* C12: when the serve loop ends, Listen returns the server-closed sentinel if
\* a shutdown has begun (and then some call of Close was made, by the watcher
\* or directly) and the accept error itself otherwise; it never returns nil.
C12_ListenReturnsServeError ==
  [][(mainPc = "serving" /\ mainPc' = "idle") =>
       /\ mainRet' = (IF inShutdown THEN ErrServerClosed ELSE ServeError)
       /\ mainRet' = ErrServerClosed => CloseInvoked]_vars

\* The serve loop has accepted a connection and has ended on the shutdown the
\* watcher triggered: Listen has returned the sentinel.
C12_Witness ==
  /\ mainPc = "idle" /\ mainRet = ErrServerClosed
  /\ \E c \in Conns : cs[c] # "none"
  /\ fr[Closer].n = 0 /\ \E w \in Watchers : fr[w].n = 1

\* ---- C13
\* C13: what the watcher's Close or its hard close returned is never what
\* Listen or ListenAndServe return; the watcher logs it (the deadline error
\* with the warning of the hard close, any error left at the end with the
\* final warning) and then ends, changing nothing but the log.
C13_SignalErrorsOnlyLogged ==
  /\ [](mainRet \in {Pending, Nil, BindError, AlreadyBound, ServeError,
                     ErrServerClosed})
  /\ [](\A w \in Watchers :
          /\ (wpc[w] \in {"forcing", "warn", "done"}
                /\ fr[w].err = DeadlineExceeded) => Forced(w)
          /\ (wpc[w] = "done" /\ shutErr[w] # Nil) => <<w, LogError>> \in log)
  /\ [][\A w \in Watchers :
          /\ (wpc[w] = "warn" /\ wpc'[w] # "warn") =>
               /\ wpc'[w] = "done"
               /\ UNCHANGED <<listener, URL, ShutdownTimeout, lsn, inShutdown,
                              ocl, cs, mainPc, mainRet, fr, sigbuf, shutErr,
                              hist, crashed>>
          /\ wpc[w] = "done" => (wpc'[w] = "done" /\ shutErr'[w] = shutErr[w])]_vars

\* The watcher's Close returned another error than the deadline's: the watcher
\* has logged it and ended without a hard close, and Listen has returned the
\* sentinel.
C13_Witness ==
  \E w \in Watchers :
    /\ wpc[w] = "done" /\ fr[w].err = ClosedConnError /\ shutErr[w] = ClosedConnError
    /\ <<w, LogError>> \in log /\ ~Forced(w)
    /\ mainPc = "idle" /\ mainRet = ErrServerClosed

\* ---- C14
\* C14: once a Bind has succeeded the listener handle is set, and no step
\* resets it: it always names a listener net.Listen has created.
C14_ListenerStaysSet ==
  /\ [](listener \in 0..Len(lsn) /\ (Len(lsn) > 0 => listener # 0))
  /\ [][listener # 0 => listener' # 0]_vars

\* After the serve loop, the shutdown and the watcher's hard close the
\* coordinator still holds its (closed) listener.
C14_Witness ==
  /\ listener # 0 /\ ~lsn[listener].open
  /\ mainPc = "idle" /\ mainRet = ErrServerClosed
  /\ \E w \in Watchers : wpc[w] = "done" /\ Forced(w)

\* ---- C15
\* C15: the URL is empty exactly while no Bind has succeeded; from then on it
\* is "http://" and the resolved local address of the listener the
\* coordinator holds (for port 0 the port the system picked, not 0), also
\* after a Bind that failed.
C15_UrlMatchesListener ==
  /\ URL = "" <=> listener = 0
  /\ listener # 0 =>
       /\ URL = "http://" \o lsn[listener].addr
       /\ URL # "http://" \o EphemeralAddr

\* A second Bind has replaced the listener, a third one has failed: the URL
\* is the one of the second listener.
C15_Witness ==
  /\ listener = 2 /\ mainRet = BindError
  /\ URL = "http://" \o lsn[2].addr /\ URL # "http://" \o lsn[1].addr

\* ---- C16
\* C16: the hard close closes the connections in flight and leaves their
\* handlers running; the coordinator is closed-forced from the moment the
\* watcher begins it, and a handler that returns afterwards changes nothing
\* but its own connection's record: no phase, no return value, no log.
C16_ForcedCloseAbandons ==
  /\ [](\A w \in Watchers : Forced(w) => Phase = "closed-forced")
  /\ [][\A w \in Watchers : (wpc[w] = "forcing" /\ wpc'[w] # "forcing") =>
          /\ HandlerRunning' = HandlerRunning
          /\ InFlight' = {}
          /\ \A c \in InFlight : cs'[c] = "abandoned"]_vars
  /\ [][\A c \in Conns : (cs[c] = "abandoned" /\ cs'[c] # "abandoned") =>
          /\ cs'[c] = "abandonedDone"
          /\ Phase' = Phase
          /\ UNCHANGED <<listener, URL, ShutdownTimeout, lsn, inShutdown, ocl,
                         mainPc, mainRet, fr, wpc, sigbuf, shutErr, log,
                         crashed>>]_vars

\* The watcher has ended after the hard close; one abandoned handler has
\* returned since and another one is still running.
C16_Witness ==
  /\ Phase = "closed-forced"
  /\ \E w \in Watchers : wpc[w] = "done" /\ Forced(w)
  /\ \E c, d \in Conns : cs[c] = "abandonedDone" /\ cs[d] = "abandoned"

\* ---- C17
\* C17: Listen waits for the listener only, not for the drain: as soon as the
\* served listener is closed Listen can return, whatever requests are in
\* flight and wherever the calls of Close are; its return leaves the requests
\* and the calls of Close as they are.
C17_ListenDoesNotWaitForDrain ==
  /\ [](( ~crashed /\ mainPc = "serving" /\ ocl.l # 0 /\ ~lsn[ocl.l].open)
          => ENABLED ServeExit)
  /\ [][(mainPc = "serving" /\ mainPc' = "idle") =>
          (cs' = cs /\ fr' = fr /\ inShutdown' = inShutdown)]_vars

\* Listen has returned the sentinel while the direct call of Close still
\* waits, before its deadline, for a request in flight: the coordinator is
\* draining, neither closed-clean nor closed-forced.
C17_Witness ==
  /\ mainPc = "idle" /\ mainRet = ErrServerClosed
  /\ InClose(Closer) /\ ~fr[Closer].ctxDone
  /\ InFlight # {} /\ Phase = "draining"

\* ---- C18
\* C18: Bind does not look at the listener the coordinator holds: on a bound
\* coordinator it fails only as net.Listen fails, never as already bound, and
\* when it succeeds it puts the new listener and its URL in place and leaves
\* every listener made before, the replaced one included, as it was.
C18_BindReplacesListener ==
  [][\A a \in Addrs : (listener # 0 /\ Bind(a)) =>
       /\ mainRet' = (IF NetListen(a) = {} THEN BindError ELSE Nil)
       /\ mainRet' = Nil =>
            /\ listener' = Len(lsn) + 1 /\ listener' # listener
            /\ lsn'[listener'].open
            /\ URL' = "http://" \o lsn'[listener'].addr /\ URL' # URL
            /\ \A l \in 1..Len(lsn) : lsn'[l] = lsn[l]]_vars

\* A second Bind has succeeded: the coordinator holds the second listener,
\* and the first one is still open.
C18_Witness ==
  /\ Len(lsn) = 2 /\ listener = 2 /\ mainRet = Nil
  /\ lsn[1].open /\ lsn[2].open
  /\ URL = "http://" \o lsn[2].addr

\* ---- C19
\* C19: a call that reaches Listen starts exactly one watcher, and nothing
\* else starts one; a watcher leaves its wait for the signal only by taking a
\* signal, and then it logs it and calls Close; while a signal waits for it
\* that step is possible, whether or not Listen or a direct call of Close
\* have returned and the server is shut down; it ends only after that call.
C19_WatcherWaitsForSignal ==
  /\ [](\A w \in Watchers :
          /\ (~crashed /\ wpc[w] = "recv" /\ sigbuf[w] > 0) => ENABLED WatcherRecv(w)
          /\ wpc[w] = "done" => (fr[w].n = 1 /\ <<w, LogSignal>> \in log))
  /\ [][/\ (Listen \/ \E a \in Addrs :
               (listener = 0 /\ NetListen(a) # {} /\ ListenAndServe(a)))
            <=> Cardinality(Spawned') = Cardinality(Spawned) + 1
        /\ Spawned \subseteq Spawned'
        /\ \A w \in Watchers : (wpc[w] = "recv" /\ wpc'[w] # "recv") =>
             /\ sigbuf[w] > 0 /\ sigbuf'[w] = 0
             /\ wpc'[w] = "closing"
             /\ fr'[w].pc = "shutdown" /\ fr'[w].n = fr[w].n + 1
             /\ <<w, LogSignal>> \in log']_vars

\* The signal came after Listen and the direct call of Close had returned:
\* the watcher has called Close on the server that was shut down, that call
\* has returned nil and the watcher has ended.
C19_Witness ==
  /\ hist.sigLate /\ hist.serving
  /\ mainPc = "idle" /\ mainRet = ErrServerClosed
  /\ \E w \in Watchers : wpc[w] = "done" /\ fr[w].err = Nil /\ ~Forced(w)

====
